---- MODULE Spec2Model ----
(***************************************************************************)
(* NDA Guardrail backend (src/backend/main.py): the chunker chunk_text,    *)
(* the best-effort rule retrieval search_playbook_rules, the risk analyzer *)
(* analyze_with_groq and the POST /analyze handler analyze_nda.            *)
(*                                                                         *)
(* Strings are kept run-length encoded: a Python str is a sequence of runs *)
(* [c |-> character, n |-> repetitions], n >= 1, adjacent runs of          *)
(* different characters.  "aaa. b" is <<Run("a",3), Run(".",1),            *)
(* Run(" ",1), Run("b",1)>>.  The encoding is exact (one value per         *)
(* string), so  =  on it is Python's ==, and it lets the chunker run with  *)
(* the program's own sizes (50, 500, 100) on texts of a thousand           *)
(* characters.                                                             *)
(***************************************************************************)
EXTENDS Integers, Sequences, FiniteSets, TLC

VARIABLES pc, nda_text, chunks, idx, all_relevant_rules, seen_rule_ids,
          status, response, calls, retrieved, groq_input, groq_outcome

vars == <<pc, nda_text, chunks, idx, all_relevant_rules, seen_rule_ids,
          status, response, calls, retrieved, groq_input, groq_outcome>>

-----------------------------------------------------------------------------
(* Python str operations on run-length encoded strings.                    *)

Run(c, n) == [c |-> c, n |-> n]

EmptyStr == <<>>

Space == <<Run(" ", 1)>>

\* str.isspace() / the regex class \s, on the characters of the model.
IsSpace(c) == c \in {" ", "\n"}

\* The regex class [.!?].
IsTerminal(c) == c \in {".", "!", "?"}

\* len(s)
RECURSIVE StrLen(_)
StrLen(s) == IF s = <<>> THEN 0 ELSE s[1].n + StrLen(Tail(s))

\* s + t
Cat(s, t) ==
    IF s = <<>> THEN t
    ELSE IF t = <<>> THEN s
    ELSE IF s[Len(s)].c = t[1].c
         THEN SubSeq(s, 1, Len(s) - 1)
                \o <<Run(t[1].c, s[Len(s)].n + t[1].n)>> \o Tail(t)
         ELSE s \o t

\* s[k:], k >= 0
RECURSIVE DropChars(_, _)
DropChars(s, k) ==
    IF k <= 0 \/ s = <<>> THEN s
    ELSE IF s[1].n <= k THEN DropChars(Tail(s), k - s[1].n)
    ELSE <<Run(s[1].c, s[1].n - k)>> \o Tail(s)

\* s[:k], k >= 0
RECURSIVE TakeChars(_, _)
TakeChars(s, k) ==
    IF k <= 0 \/ s = <<>> THEN <<>>
    ELSE IF s[1].n <= k THEN <<s[1]>> \o TakeChars(Tail(s), k - s[1].n)
    ELSE <<Run(s[1].c, k)>>

\* s[i:j], 0 <= i <= j
Slice(s, i, j) == TakeChars(DropChars(s, i), j - i)

\* s.lstrip()
RECURSIVE LStrip(_)
LStrip(s) ==
    IF s # <<>> /\ IsSpace(s[1].c) THEN LStrip(Tail(s)) ELSE s

\* s.rstrip()
RECURSIVE RStrip(_)
RStrip(s) ==
    IF s # <<>> /\ IsSpace(s[Len(s)].c)
    THEN RStrip(SubSeq(s, 1, Len(s) - 1))
    ELSE s

\* s.strip()
Strip(s) == RStrip(LStrip(s))

\* re.sub(r'\s+', ' ', s): every maximal group of whitespace becomes one " ".
RECURSIVE ReSubSpaces(_)
ReSubSpaces(s) ==
    IF s = <<>> THEN <<>>
    ELSE IF IsSpace(s[1].c) THEN Space \o ReSubSpaces(LStrip(s))
    ELSE <<s[1]>> \o ReSubSpaces(Tail(s))

\* re.split(r'(?<=[.!?])\s+', s): a separator is a maximal group of
\* whitespace whose preceding character is one of . ! ?  The piece being
\* read is cur; the last piece is returned even when it is empty.
RECURSIVE ReSplitFrom(_, _)
ReSplitFrom(s, cur) ==
    IF s = <<>> THEN <<cur>>
    ELSE IF IsSpace(s[1].c) /\ cur # <<>> /\ IsTerminal(cur[Len(cur)].c)
    THEN <<cur>> \o ReSplitFrom(LStrip(s), <<>>)
    ELSE ReSplitFrom(Tail(s), Cat(cur, <<s[1]>>))

ReSplitSentences(s) == ReSplitFrom(s, <<>>)

-----------------------------------------------------------------------------
(* chunk_text                                                              *)

CHUNK_SIZE == 500
OVERLAP == 100

\* text = re.sub(r'\s+', ' ', text).strip()
CleanText(text) == Strip(ReSubSpaces(text))

\* The loop over the sentences: the state after sentences i.. are packed.
RECURSIVE PackSentences(_, _, _, _, _)
PackSentences(sentences, i, chunks_, current_chunk, chunk_size) ==
    IF i > Len(sentences)
    THEN [chunks |-> chunks_, current_chunk |-> current_chunk]
    ELSE LET sentence == sentences[i] IN
         IF StrLen(current_chunk) + StrLen(sentence) <= chunk_size
         THEN PackSentences(sentences, i + 1, chunks_,
                  IF current_chunk # EmptyStr
                  THEN Cat(current_chunk, Cat(Space, sentence))
                  ELSE sentence,
                  chunk_size)
         ELSE PackSentences(sentences, i + 1,
                  IF current_chunk # EmptyStr
                  THEN Append(chunks_, Strip(current_chunk))
                  ELSE chunks_,
                  sentence, chunk_size)

\* The chunks of the sentence-based packing of the cleaned text.
SentenceChunks(text, chunk_size) ==
    LET packed == PackSentences(ReSplitSentences(text), 1, <<>>, EmptyStr,
                                chunk_size)
    IN  IF packed.current_chunk # EmptyStr
        THEN Append(packed.chunks, Strip(packed.current_chunk))
        ELSE packed.chunks

\* NoGoodSentenceSplits with a fault: an oversized single chunk is kept.
OnlyWhenNoChunks(chunks_, chunk_size) == Len(chunks_) = 0

\* The condition of the fall back to character-based chunking.
NoGoodSentenceSplits(chunks_, chunk_size) ==
    \/ Len(chunks_) = 0
    \/ Len(chunks_) = 1 /\ StrLen(chunks_[1]) > chunk_size * 2

\* CharChunksFrom with a fault: the slice is appended without .strip().
RECURSIVE CharChunksFromUntrimmed(_, _, _, _, _)
CharChunksFromUntrimmed(text, i, chunk_size, overlap, chunks_) ==
    IF i >= StrLen(text) THEN chunks_
    ELSE LET chunk == Slice(text, i, i + chunk_size) IN
         CharChunksFromUntrimmed(text, i + (chunk_size - overlap), chunk_size,
                                 overlap,
                                 IF Strip(chunk) # EmptyStr
                                 THEN Append(chunks_, chunk)
                                 ELSE chunks_)

\* for i in range(0, len(text), chunk_size - overlap), from i on.
RECURSIVE CharChunksFrom(_, _, _, _, _)
CharChunksFrom(text, i, chunk_size, overlap, chunks_) ==
    IF i >= StrLen(text) THEN chunks_
    ELSE LET chunk == Slice(text, i, i + chunk_size) IN
         CharChunksFrom(text, i + (chunk_size - overlap), chunk_size, overlap,
                        IF Strip(chunk) # EmptyStr
                        THEN Append(chunks_, Strip(chunk))
                        ELSE chunks_)

\* CharChunks with a fault: the step is chunk_size + overlap.
CharChunksWithGaps(text, chunk_size, overlap) ==
    CharChunksFrom(text, 0, chunk_size, 0 - overlap, <<>>)

CharChunks(text, chunk_size, overlap) ==
    CharChunksFrom(text, 0, chunk_size, overlap, <<>>)

chunk_text(text, chunk_size, overlap) ==
    LET clean == CleanText(text)
        bySentence == SentenceChunks(clean, chunk_size)
    IN  IF NoGoodSentenceSplits(bySentence, chunk_size)
        THEN CharChunks(clean, chunk_size, overlap)
        ELSE bySentence

-----------------------------------------------------------------------------
(* Input texts.                                                            *)

\* The longest text, in runs, given to chunk_text on its own.
MaxRuns == 4

\* The run lengths of each character in those texts.
RunLengths(c) ==
    CASE c = "a" -> {1, 49, 250, 400, 501, 1001}
      [] c = "." -> {1, 250}
      [] c = " " -> {1, 50}
      [] c = "\n" -> {1}

ChunkRuns ==
    UNION {{Run(c, n) : n \in RunLengths(c)} : c \in {"a", ".", " ", "\n"}}

IsCanonical(s) == \A k \in 1..(Len(s) - 1) : s[k].c # s[k + 1].c

TextsOver(runs, maxRuns) ==
    {s \in UNION {[1..m -> runs] : m \in 0..maxRuns} : IsCanonical(s)}

ChunkTexts == TextsOver(ChunkRuns, MaxRuns)

-----------------------------------------------------------------------------
(* search_playbook_rules                                                   *)

\* A playbook rule row as the handler reads it: rule.get('id') and the rest
\* of the row.  NoId is a row whose id is missing (None).
NoId == "None"

Rule(id, rule_name) == [id |-> id, rule_name |-> rule_name]

\* What supabase.rpc('match_legal_rules', ...).execute() does: it raises, it
\* answers with no data (None or an empty list), or it answers with rows.
RpcRaises == [kind |-> "raises", data |-> <<>>]
RpcNoData == [kind |-> "nodata", data |-> <<>>]
RpcRows(rows) == [kind |-> "rows", data |-> rows]

\* search_playbook_rules with a fault: the exception of the call leaves it.
SearchPropagatesError(outcome) ==
    IF outcome.kind = "raises"
    THEN [raised |-> TRUE, rules |-> <<>>]
    ELSE [raised |-> FALSE,
          rules |-> IF outcome.data # <<>> THEN outcome.data ELSE <<>>]

\* The result of the call: the rows, raised |-> TRUE if an exception leaves
\* the function.
search_playbook_rules(outcome) ==
    IF outcome.kind = "raises"
    THEN [raised |-> FALSE, rules |-> <<>>]
    ELSE [raised |-> FALSE,
          rules |-> IF outcome.data # <<>> THEN outcome.data ELSE <<>>]

-----------------------------------------------------------------------------
(* analyze_with_groq                                                       *)

Absent == "<absent>"

\* A parsed JSON object as the handler reads it: its "risks" and "summary"
\* keys, each present or not.  JsonList is a JSON array at the top level.
JsonDict(has_risks, risks, has_summary, summary) ==
    [type |-> "dict", has_risks |-> has_risks, risks |-> risks,
     has_summary |-> has_summary, summary |-> summary]

JsonList == [type |-> "list", has_risks |-> FALSE, risks |-> <<>>,
             has_summary |-> FALSE, summary |-> ""]

RiskDict(clause, issue, fix, severity) ==
    [clause |-> clause, issue |-> issue, fix |-> fix, severity |-> severity]

\* The texts the generation call answers with.
NoRisksText == "{\"risks\": [], \"summary\": \"No significant risks.\"}"
OneRiskText ==
    "{\"risks\": [{\"clause\": \"c\", \"issue\": \"i\", \"fix\": \"f\", \"severity\": \"high\"}], \"summary\": \"s\"}"
DefaultsText ==
    "{\"risks\": [{\"clause\": \"c\", \"issue\": \"i\", \"fix\": \"f\"}]}"
BadRiskText == "{\"risks\": [{\"clause\": \"c\"}], \"summary\": \"s\"}"
ArrayText == "[]"
ProseText == "I found two risks in this NDA."
TruncatedText == "{\"risks\": [{\"clause\": \"c\", "

JsonTexts == {NoRisksText, OneRiskText, DefaultsText, BadRiskText, ArrayText}
NotJsonTexts == {ProseText, TruncatedText}

\* json.loads(response_text): decode_error |-> TRUE is json.JSONDecodeError.
JsonLoads(response_text) ==
    CASE response_text = NoRisksText ->
           [decode_error |-> FALSE,
            value |-> JsonDict(TRUE, <<>>, TRUE, "No significant risks.")]
      [] response_text = OneRiskText ->
           [decode_error |-> FALSE,
            value |-> JsonDict(TRUE, <<RiskDict("c", "i", "f", "high")>>,
                               TRUE, "s")]
      [] response_text = DefaultsText ->
           [decode_error |-> FALSE,
            value |-> JsonDict(TRUE, <<RiskDict("c", "i", "f", Absent)>>,
                               FALSE, "")]
      [] response_text = BadRiskText ->
           [decode_error |-> FALSE,
            value |-> JsonDict(TRUE,
                               <<RiskDict("c", Absent, Absent, Absent)>>,
                               TRUE, "s")]
      [] response_text = ArrayText ->
           [decode_error |-> FALSE, value |-> JsonList]
      [] OTHER ->
           [decode_error |-> TRUE, value |-> JsonList]

\* What groq_client.chat.completions.create(...) does: it raises (an error of
\* the client, or a json.JSONDecodeError of its own on the body of the HTTP
\* answer), or it returns a completion whose message content is None or a
\* text.
GroqRaises == [kind |-> "raises", content |-> ""]
GroqRaisesDecodeError == [kind |-> "raises_decode_error", content |-> ""]
GroqNoContent == [kind |-> "none", content |-> ""]
GroqText(t) == [kind |-> "text", content |-> t]

ParseErrorSummary == "Error parsing AI response. Please try again."

\* analyze_with_groq with a fault: a JSON parse error of the text is raised
\* as a 500 too.
ParseErrorRaises(outcome) ==
    IF outcome.kind = "text" /\ ~JsonLoads(outcome.content).decode_error
    THEN [raised |-> FALSE, value |-> JsonLoads(outcome.content).value]
    ELSE IF outcome.kind = "raises_decode_error"
    THEN [raised |-> FALSE,
          value |-> JsonDict(TRUE, <<>>, TRUE, ParseErrorSummary)]
    ELSE [raised |-> TRUE, value |-> JsonList]

\* analyze_with_groq with a fault: every exception gives the degraded dict.
AnyFailureDegrades(outcome) ==
    IF outcome.kind = "text" /\ ~JsonLoads(outcome.content).decode_error
    THEN [raised |-> FALSE, value |-> JsonLoads(outcome.content).value]
    ELSE [raised |-> FALSE,
          value |-> JsonDict(TRUE, <<>>, TRUE, ParseErrorSummary)]

\* The result of the call: the dict it returns, or HTTPException(500).
\* except json.JSONDecodeError comes first and catches the error wherever in
\* the try block it is raised; json.loads(None) raises a TypeError.
analyze_with_groq(outcome) ==
    IF outcome.kind = "text"
    THEN LET parsed == JsonLoads(outcome.content) IN
         IF parsed.decode_error
         THEN [raised |-> FALSE,
               value |-> JsonDict(TRUE, <<>>, TRUE, ParseErrorSummary)]
         ELSE [raised |-> FALSE, value |-> parsed.value]
    ELSE IF outcome.kind = "raises_decode_error"
    THEN [raised |-> FALSE,
          value |-> JsonDict(TRUE, <<>>, TRUE, ParseErrorSummary)]
    ELSE [raised |-> TRUE, value |-> JsonList]

-----------------------------------------------------------------------------
(* analyze_nda                                                             *)

MIN_TEXT_LEN == 50

\* TooShort with a fault: the length is taken without .strip().
TooShortUntrimmed(text) == text = EmptyStr \/ StrLen(text) < MIN_TEXT_LEN

\* if not request.nda_text or len(request.nda_text.strip()) < 50
TooShort(text) == text = EmptyStr \/ StrLen(Strip(text)) < MIN_TEXT_LEN

\* CollectRules with a fault: the id is never added to seen_rule_ids.
RECURSIVE CollectRulesForgetsSeen(_, _, _, _)
CollectRulesForgetsSeen(rules, k, all_, seen) ==
    IF k > Len(rules) THEN [all_relevant_rules |-> all_, seen_rule_ids |-> seen]
    ELSE LET rule == rules[k]
             rule_id == rule.id
         IN  IF rule_id # NoId /\ rule_id \notin seen
             THEN CollectRulesForgetsSeen(rules, k + 1, Append(all_, rule), seen)
             ELSE CollectRulesForgetsSeen(rules, k + 1, all_, seen)

\* for rule in rules: keep the rules whose id is set and not seen yet.
RECURSIVE CollectRules(_, _, _, _)
CollectRules(rules, k, all_, seen) ==
    IF k > Len(rules) THEN [all_relevant_rules |-> all_, seen_rule_ids |-> seen]
    ELSE LET rule == rules[k]
             rule_id == rule.id
         IN  IF rule_id # NoId /\ rule_id \notin seen
             THEN CollectRules(rules, k + 1, Append(all_, rule),
                               seen \cup {rule_id})
             ELSE CollectRules(rules, k + 1, all_, seen)

\* RiskItem(**risk): clause, issue and fix are required, severity defaults.
RiskItemValid(risk) ==
    risk.clause # Absent /\ risk.issue # Absent /\ risk.fix # Absent

RiskItem(risk) ==
    [clause |-> risk.clause, issue |-> risk.issue, fix |-> risk.fix,
     severity |-> IF risk.severity = Absent THEN "medium" ELSE risk.severity]

\* Step 4 on the dict of analyze_with_groq: raised |-> TRUE when the dict has
\* no get (a JSON array) or an item is no RiskItem.
RiskReport(risk_report) ==
    IF risk_report.type # "dict" THEN [raised |-> TRUE, report |-> <<>>]
    ELSE LET risks == IF risk_report.has_risks THEN risk_report.risks
                      ELSE <<>>
         IN  IF \E k \in 1..Len(risks) : ~RiskItemValid(risks[k])
             THEN [raised |-> TRUE, report |-> <<>>]
             ELSE [raised |-> FALSE,
                   report |->
                     <<[risks |-> [k \in 1..Len(risks) |-> RiskItem(risks[k])],
                        summary |-> IF risk_report.has_summary
                                    THEN risk_report.summary
                                    ELSE "Analysis complete."]>>]

\* AfterChunk with a fault: the loop ends one chunk early.
AfterChunkSkipsLast(i, n) == IF i < n - 1 THEN "embed" ELSE "generate"

\* Where the loop over the chunks goes after chunk i of n.
AfterChunk(i, n) == IF i < n THEN "embed" ELSE "generate"

Call(op, i) == [op |-> op, i |-> i]

\* The request texts: up to MaxRequestRuns runs and MaxRequestLen characters.
MaxRequestRuns == 3
MaxRequestLen == 1100

RequestRunLengths(c) ==
    CASE c = "a" -> {49, 50, 1001}
      [] c = "." -> {1}
      [] c = " " -> {1}

RequestRuns ==
    UNION {{Run(c, n) : n \in RequestRunLengths(c)} : c \in {"a", ".", " "}}

RequestTexts ==
    {s \in TextsOver(RequestRuns, MaxRequestRuns) : StrLen(s) <= MaxRequestLen}

\* The answers of the similarity search to one chunk (at most top_k=3 rows).
RpcOutcomes ==
    {RpcRaises, RpcNoData,
     RpcRows(<<Rule("R1", "A"), Rule("R2", "A")>>),
     RpcRows(<<Rule("R2", "B"), Rule(NoId, "A"), Rule("R1", "B")>>),
     RpcRows(<<Rule("R1", "B"), Rule("R1", "A")>>)}

GroqOutcomes ==
    {GroqRaises, GroqRaisesDecodeError, GroqNoContent}
      \cup {GroqText(t) : t \in JsonTexts \cup NotJsonTexts}

Init ==
    /\ pc = "validate"
    /\ nda_text \in RequestTexts
    /\ chunks = <<>>
    /\ idx = 0
    /\ all_relevant_rules = <<>>
    /\ seen_rule_ids = {}
    /\ status = 0
    /\ response = <<>>
    /\ calls = <<>>
    /\ retrieved = <<>>
    /\ groq_input = <<>>
    /\ groq_outcome = <<>>

\* The text is too short: HTTPException(400).
Reject ==
    /\ pc = "validate"
    /\ TooShort(nda_text)
    /\ status' = 400
    /\ pc' = "done"
    /\ UNCHANGED <<nda_text, chunks, idx, all_relevant_rules, seen_rule_ids,
                   response, calls, retrieved, groq_input, groq_outcome>>

\* Step 1: chunks = chunk_text(request.nda_text), and the loop set up.
Chunk ==
    /\ pc = "validate"
    /\ ~TooShort(nda_text)
    /\ chunks' = chunk_text(nda_text, CHUNK_SIZE, OVERLAP)
    /\ calls' = Append(calls, Call("chunk_text", 0))
    /\ all_relevant_rules' = <<>>
    /\ seen_rule_ids' = {}
    /\ idx' = 1
    /\ pc' = AfterChunk(0, Len(chunks'))
    /\ UNCHANGED <<nda_text, status, response, retrieved, groq_input,
                   groq_outcome>>

\* embedding = generate_embedding(chunk)
Embed ==
    /\ pc = "embed"
    /\ calls' = Append(calls, Call("generate_embedding", idx))
    /\ pc' = "search"
    /\ UNCHANGED <<nda_text, chunks, idx, all_relevant_rules, seen_rule_ids,
                   status, response, retrieved, groq_input, groq_outcome>>

\* generate_embedding raises: nothing catches it, the request ends in a 500.
EmbedFault ==
    /\ pc = "embed"
    /\ calls' = Append(calls, Call("generate_embedding", idx))
    /\ status' = 500
    /\ pc' = "done"
    /\ UNCHANGED <<nda_text, chunks, idx, all_relevant_rules, seen_rule_ids,
                   response, retrieved, groq_input, groq_outcome>>

\* rules = await search_playbook_rules(embedding, top_k=3) and the loop over
\* the rules.
Search ==
    /\ pc = "search"
    /\ \E outcome \in RpcOutcomes :
         LET found == search_playbook_rules(outcome)
             kept == CollectRules(found.rules, 1, all_relevant_rules,
                                  seen_rule_ids)
         IN  /\ calls' = Append(calls, Call("search_playbook_rules", idx))
             /\ retrieved' = Append(retrieved, outcome)
             /\ IF found.raised
                THEN /\ status' = 500
                     /\ pc' = "done"
                     /\ UNCHANGED <<idx, all_relevant_rules, seen_rule_ids>>
                ELSE /\ all_relevant_rules' = kept.all_relevant_rules
                     /\ seen_rule_ids' = kept.seen_rule_ids
                     /\ idx' = idx + 1
                     /\ pc' = AfterChunk(idx, Len(chunks))
                     /\ UNCHANGED status
    /\ UNCHANGED <<nda_text, chunks, response, groq_input, groq_outcome>>

\* Steps 3 and 4: analyze_with_groq(chunks, all_relevant_rules) and the
\* RiskReport of its dict.
Generate ==
    /\ pc = "generate"
    /\ \E outcome \in GroqOutcomes :
         LET analysis == analyze_with_groq(outcome)
             built == RiskReport(analysis.value)
         IN  /\ groq_outcome' = <<outcome>>
             /\ IF analysis.raised \/ built.raised
                THEN status' = 500 /\ response' = <<>>
                ELSE status' = 200 /\ response' = built.report
    /\ calls' = Append(calls, Call("analyze_with_groq", 0))
    /\ groq_input' = <<[nda_chunks |-> chunks,
                        relevant_rules |-> all_relevant_rules]>>
    /\ pc' = "done"
    /\ UNCHANGED <<nda_text, chunks, idx, all_relevant_rules, seen_rule_ids,
                   retrieved>>

Next == Reject \/ Chunk \/ Embed \/ EmbedFault \/ Search \/ Generate

Spec == Init /\ [][Next]_vars

-----------------------------------------------------------------------------
(* chunk_text on its own: one call on any text.                            *)

InitChunk ==
    /\ pc = "chunk_text"
    /\ nda_text \in ChunkTexts
    /\ chunks = <<>>
    /\ idx = 0
    /\ all_relevant_rules = <<>>
    /\ seen_rule_ids = {}
    /\ status = 0
    /\ response = <<>>
    /\ calls = <<>>
    /\ retrieved = <<>>
    /\ groq_input = <<>>
    /\ groq_outcome = <<>>

CallChunkText ==
    /\ pc = "chunk_text"
    /\ chunks' = chunk_text(nda_text, CHUNK_SIZE, OVERLAP)
    /\ pc' = "returned"
    /\ UNCHANGED <<nda_text, idx, all_relevant_rules, seen_rule_ids, status,
                   response, calls, retrieved, groq_input, groq_outcome>>

NextChunk == CallChunkText

SpecChunk == InitChunk /\ [][NextChunk]_vars

-----------------------------------------------------------------------------
(* Properties of chunk_text, under SpecChunk.                              *)

Returned == pc = "returned"

Clean == CleanText(nda_text)

IsTrimmedNonEmpty(s) ==
    s # EmptyStr /\ ~IsSpace(s[1].c) /\ ~IsSpace(s[Len(s)].c)

AtLeastOneChunkAllTrimmed ==
    /\ Len(chunks) >= 1
    /\ \A k \in 1..Len(chunks) : IsTrimmedNonEmpty(chunks[k])

\* C2, as stated: for any input text of at least 50 characters chunk_text
\* returns at least one chunk and every chunk is a non-empty trimmed string.
C2_Original ==
    (Returned /\ StrLen(nda_text) >= 50) => AtLeastOneChunkAllTrimmed

\* C2, amended: for any input text of at least 50 characters after trimming,
\* chunk_text returns at least one chunk and every chunk it returns is a
\* non-empty, whitespace-trimmed string.
C2_ChunksNonEmptyTrimmed ==
    (Returned /\ StrLen(Strip(nda_text)) >= 50) => AtLeastOneChunkAllTrimmed

\* A text of 50 characters or more after trimming whose character-based
\* chunks had whitespace at an edge of their slice.
C2_Witness ==
    /\ Returned
    /\ StrLen(Strip(nda_text)) >= 50
    /\ Len(chunks) >= 3
    /\ \E k \in 1..Len(chunks) : StrLen(chunks[k]) = 499
    /\ AtLeastOneChunkAllTrimmed

\* The chunks joined by single spaces.
RECURSIVE JoinBySpace(_)
JoinBySpace(cs) ==
    IF cs = <<>> THEN EmptyStr
    ELSE IF Len(cs) = 1 THEN cs[1]
    ELSE Cat(cs[1], Cat(Space, JoinBySpace(Tail(cs))))

\* The number of characters of text up to the first character at or after p
\* that is no whitespace.
SkipSpaces(text, p) == StrLen(text) - StrLen(LStrip(DropChars(text, p)))

\* The places where a run of text ends.
RunEnds(text) == {StrLen(SubSeq(text, 1, j)) : j \in 1..Len(text)}

\* The last place at or before p where chunk occurs in text; -1 if there is
\* none.  An occurrence starts at p, or its first run ends where a run of
\* text ends.
LastOccurrence(text, chunk, p) ==
    LET places == {o \in {p} \cup {e - chunk[1].n : e \in RunEnds(text)} :
                     /\ 0 <= o
                     /\ o <= p
                     /\ Slice(text, o, o + StrLen(chunk)) = chunk}
    IN  IF places = {} THEN -1
        ELSE CHOOSE o \in places : \A o2 \in places : o2 <= o

\* How far the chunks k.. cover text when the characters before p are
\* covered: each chunk is laid where it occurs in the text, starting at or
\* before the first character not covered yet, so that nothing is skipped;
\* -1 if a chunk has no such place.
RECURSIVE CoveredUpTo(_, _, _, _)
CoveredUpTo(cs, k, text, p) ==
    IF k > Len(cs) THEN p
    ELSE IF cs[k] = EmptyStr THEN -1
    ELSE LET o == LastOccurrence(text, cs[k], p) IN
         IF o < 0 THEN -1
         ELSE CoveredUpTo(cs, k + 1, text,
                  SkipSpaces(text,
                      IF o + StrLen(cs[k]) > p THEN o + StrLen(cs[k]) ELSE p))

\* Consecutive chunks share characters of the text or are separated by
\* whitespace alone: the chunks, in order, cover all of it.
CoversInOrder(cs, text) == CoveredUpTo(cs, 1, text, 0) = StrLen(text)

UsedSentencePacking ==
    ~NoGoodSentenceSplits(SentenceChunks(Clean, 500), 500)

\* C3: for any input text of at least 50 characters the chunks, in order,
\* cover the whitespace-normalized text with nothing dropped between
\* consecutive chunks, and sentence-packed chunks joined by single spaces
\* reproduce the normalized text.
C3_ChunksCoverText ==
    (Returned /\ StrLen(nda_text) >= 50) =>
        /\ CoversInOrder(chunks, Clean)
        /\ UsedSentencePacking => JoinBySpace(chunks) = Clean

\* Three overlapping character-based chunks of a text with spaces in it.
C3_Witness ==
    /\ Returned
    /\ StrLen(nda_text) >= 50
    /\ ~UsedSentencePacking
    /\ Len(chunks) >= 3
    /\ \E k \in 1..Len(Clean) : IsSpace(Clean[k].c)
    /\ CoversInOrder(chunks, Clean)

\* C8: under sentence-based packing every returned chunk has length at most
\* chunk_size (500).
C8_SentenceChunksWithinSize ==
    (Returned /\ UsedSentencePacking) =>
        \A k \in 1..Len(chunks) : StrLen(chunks[k]) <= 500

\* The fixed-width slicing of text: the slices of chunk_size characters
\* starting every chunk_size - overlap characters, each trimmed, empty ones
\* omitted.
FixedWidthSlices(text, chunk_size, overlap) ==
    LET step == chunk_size - overlap
        count == (StrLen(text) + step - 1) \div step
        slice(k) == Strip(Slice(text, (k - 1) * step,
                                (k - 1) * step + chunk_size))
    IN  SelectSeq([k \in 1..count |-> slice(k)], LAMBDA c : c # EmptyStr)

-----------------------------------------------------------------------------
(* Properties of POST /analyze, under Spec.                                *)

Done == pc = "done"

GenerationCalled == groq_input # <<>>

\* C1: a text shorter than 50 characters after trimming (the empty text
\* included) is answered with a 400, and neither chunk_text nor the
\* embedding, the retrieval or the generation is called for it, before or
\* after the rejection.
C1_ShortTextRejected ==
    StrLen(Strip(nda_text)) < 50 =>
        /\ pc \in {"validate", "done"}
        /\ calls = <<>>
        /\ chunks = <<>>
        /\ retrieved = <<>>
        /\ ~GenerationCalled
        /\ Done => status = 400 /\ response = <<>>

\* A text of 50 characters or more that is shorter than 50 once trimmed,
\* rejected.
C1_Witness ==
    /\ Done
    /\ StrLen(nda_text) >= 50
    /\ StrLen(Strip(nda_text)) < 50
    /\ status = 400
    /\ calls = <<>>

\* The rows of the chunks retrieved so far, in the order of retrieval.
RECURSIVE RowsOf(_)
RowsOf(outcomes) ==
    IF outcomes = <<>> THEN <<>>
    ELSE (IF outcomes[1].kind = "rows" THEN outcomes[1].data ELSE <<>>)
           \o RowsOf(Tail(outcomes))

\* Of rows, the first row of each identifier, in the order of the rows.
FirstOfEachId(rows) ==
    LET first == {p \in 1..Len(rows) :
                    /\ rows[p].id # NoId
                    /\ \A q \in 1..(p - 1) : rows[q].id # rows[p].id}
        nth(k) == CHOOSE p \in first : Cardinality({q \in first : q <= p}) = k
    IN  [k \in 1..Cardinality(first) |-> rows[nth(k)]]

\* C4: the rule set is deduplicated by rule identifier, first seen wins: of
\* the rules retrieved for the chunks it holds exactly one of each
\* identifier, the first one retrieved, in the order of first retrieval, and
\* that is the rule set passed to the analyzer.
C4_DedupFirstSeenWins ==
    /\ all_relevant_rules = FirstOfEachId(RowsOf(retrieved))
    /\ \A j, k \in 1..Len(all_relevant_rules) :
         all_relevant_rules[j].id = all_relevant_rules[k].id => j = k
    /\ GenerationCalled =>
         groq_input[1].relevant_rules = FirstOfEachId(RowsOf(retrieved))

\* R1 and R2 are retrieved for two chunks, with other contents and in the
\* other order the second time; the analyzer gets the first copies.
C4_Witness ==
    /\ GenerationCalled
    /\ Len(retrieved) >= 2
    /\ retrieved[1] = RpcRows(<<Rule("R1", "A"), Rule("R2", "A")>>)
    /\ retrieved[2] =
         RpcRows(<<Rule("R2", "B"), Rule(NoId, "A"), Rule("R1", "B")>>)
    /\ groq_input[1].relevant_rules = <<Rule("R1", "A"), Rule("R2", "A")>>

RetrievalThrew == \E k \in 1..Len(retrieved) : retrieved[k].kind = "raises"

\* The generation answered with a text the handler makes a report of: a
\* report of the declared shape, or a text that is no JSON.
GenerationAnswered ==
    /\ groq_outcome # <<>>
    /\ groq_outcome[1].kind = "text"
    /\ groq_outcome[1].content \in
         NotJsonTexts \cup {NoRisksText, OneRiskText, DefaultsText}

\* C5: when the retrieval call throws for a chunk, that chunk counts as no
\* matches and the request goes on: it is not ended by the retrieval, the
\* remaining chunks are embedded and searched, the generation call is made
\* with the rules of the other chunks, and a report is returned when the
\* generation answers.
C5_RetrievalFailureTolerated ==
    RetrievalThrew =>
        /\ all_relevant_rules = FirstOfEachId(RowsOf(retrieved))
        /\ ~Done => /\ status = 0
                    /\ idx = Len(retrieved) + 1
                    /\ pc = IF Len(retrieved) < Len(chunks)
                            THEN IF calls[Len(calls)].op = "generate_embedding"
                                 THEN "search" ELSE "embed"
                            ELSE "generate"
        /\ (Done /\ ~GenerationCalled) =>
               calls[Len(calls)].op = "generate_embedding"
        /\ GenerationCalled =>
               /\ Len(retrieved) = Len(chunks)
               /\ groq_input[1].relevant_rules = FirstOfEachId(RowsOf(retrieved))
               /\ groq_input[1].nda_chunks = chunks
        /\ (Done /\ GenerationAnswered) => status = 200 /\ Len(response) = 1

\* The retrieval threw for the first of three chunks; the report is made
\* with the rules of the other two.
C5_Witness ==
    /\ Done
    /\ status = 200
    /\ Len(response) = 1
    /\ Len(retrieved) = 3
    /\ retrieved[1].kind = "raises"
    /\ groq_input[1].relevant_rules # <<>>

\* C6: when the generation call returns text that is no valid JSON the
\* request succeeds with an empty risk list and the generic summary.
C6_NonJsonDegrades ==
    (/\ groq_outcome # <<>>
     /\ groq_outcome[1].kind = "text"
     /\ groq_outcome[1].content \in NotJsonTexts)
    => /\ status = 200
       /\ response = <<[risks |-> <<>>,
                        summary |-> "Error parsing AI response. Please try again."]>>

C6_Witness ==
    /\ Done
    /\ groq_outcome = <<GroqText(TruncatedText)>>
    /\ status = 200
    /\ response[1].risks = <<>>

CallsOfRequest(n) ==
    <<Call("chunk_text", 0)>>
      \o [k \in 1..(2 * n) |->
            IF k % 2 = 1 THEN Call("generate_embedding", (k + 1) \div 2)
            ELSE Call("search_playbook_rules", k \div 2)]
      \o <<Call("analyze_with_groq", 0)>>

\* C10: the calls of an accepted request are made one after the other in the
\* order chunk_text, then for each chunk in order its embedding and then its
\* retrieval, once each, then the generation, once, after the retrieval of
\* the last chunk.
C10_SequentialPipeline ==
    /\ Len(calls) <= 2 * Len(chunks) + 2
    /\ calls = SubSeq(CallsOfRequest(Len(chunks)), 1, Len(calls))
    /\ GenerationCalled <=> (calls # <<>> /\ calls[Len(calls)].op = "analyze_with_groq")
    /\ GenerationCalled => calls = CallsOfRequest(Len(chunks))
    /\ pc = "generate" => Len(calls) = 2 * Len(chunks) + 1

\* A request of three chunks after its generation call.
C10_Witness ==
    /\ Done
    /\ GenerationCalled
    /\ Len(chunks) = 3
    /\ Len(calls) = 8

====
